---- MODULE Spec2Model ----
(***************************************************************************)
(* Model of the OCR endpoint of pdftollstxt (src/app/api/ocr/route.ts):    *)
(* the text normalizer optimizeForLLMs, the two provider adapters          *)
(* processWithMistral / processWithOpenAI and the POST handler.            *)
(*                                                                         *)
(* A JavaScript string is modelled as a sequence of one-character strings. *)
(* Every regular expression of the source is modelled by the leftmost,     *)
(* greedy, non-overlapping scan that String.prototype.replace performs     *)
(* with the g flag.                                                        *)
(***************************************************************************)
EXTENDS Integers, Sequences, FiniteSets, TLC

VARIABLES
    markdown,   \* optimizeForLLMs: the argument of the first call
    runs,       \* optimizeForLLMs: number of calls made (0, 1 or 2)
    once,       \* optimizeForLLMs(markdown) when runs >= 1
    twice,      \* optimizeForLLMs(once) when runs = 2
    request,    \* POST: the request (its body and form data)
    pc,         \* POST: position of the handler
    called,     \* POST: the provider backends called so far, in order
    reply,      \* POST: what the provider call settled with
    result,     \* POST: `result`, the {text, pageCount} of the adapter
    response,   \* POST: the response returned
    est,        \* processWithOpenAI: a text length and the page count estimated for it
    client      \* Home: the state of the page around one run of processFile

vars == <<markdown, runs, once, twice, request, pc, called, reply, result, response,
          est, client>>

normVars == <<markdown, runs, once, twice>>
postVars == <<request, pc, called, reply, result, response>>
restVars == <<est, client>>

-----------------------------------------------------------------------------
(* Characters *)

NL  == "\n"
TAB == "\t"
SP  == " "

\* The line terminators of ECMAScript that ^ and $ look at under the m flag.
LineTerminators == {"\n", "\r"}

\* The characters \s, trimStart and trimEnd treat as white space.
WhiteSpace == {" ", "\t", "\n", "\r", "\f"}

IsSpace(c) == c \in WhiteSpace

\* [ \t] of the trailing-whitespace expression.
Blanks == {" ", "\t"}

\* Least index k >= i with s[k] = c, or 0 when there is none.
RECURSIVE IndexOf(_, _, _)
IndexOf(s, c, i) ==
    IF i > Len(s) THEN 0
    ELSE IF s[i] = c THEN i
    ELSE IndexOf(s, c, i + 1)

\* Least index k >= i with s[k] in C, or Len(s) + 1 when there is none: where
\* the next match of an expression whose matches start with a character of C
\* can start.
RECURSIVE NextIn(_, _, _)
NextIn(s, C, i) ==
    IF i > Len(s) \/ s[i] \in C THEN i
    ELSE NextIn(s, C, i + 1)

\* s[i..j], empty when j < i.
Slice(s, i, j) == IF j < i THEN <<>> ELSE SubSeq(s, i, j)

\* Does s hold the characters of t from index i on?
StartsWithAt(s, t, i) ==
    /\ i + Len(t) - 1 <= Len(s)
    /\ \A k \in 1..Len(t) : s[i + k - 1] = t[k]

\* Array.prototype.join(""): the concatenation of the strings of ss.
RECURSIVE Flatten(_)
Flatten(ss) == IF ss = <<>> THEN <<>> ELSE Head(ss) \o Flatten(Tail(ss))

\* The sequences over S of length at most n.
SeqsUpTo(S, n) == UNION {[1..k -> S] : k \in 0..n}

\* An optional value (null, undefined or a missing field against a value) is
\* the empty sequence or the one-element sequence holding the value.
None == <<>>
Some(v) == <<v>>

-----------------------------------------------------------------------------
\* Step 1: result.replace(/!\[([^\]]*)\]\([^)]+\)/g, "")

\* Index of the last character of a match of /!\[([^\]]*)\]\([^)]+\)/ that
\* starts at i, or 0 when the expression does not match there.  [^\]]* cannot
\* cross a "]" and [^)]+ cannot cross a ")", so the match is unique.
ImageRefEnd(s, i) ==
    IF ~StartsWithAt(s, <<"!", "[">>, i) THEN 0
    ELSE LET j == IndexOf(s, "]", i + 2)
         IN  IF j = 0 \/ j + 1 > Len(s) \/ s[j + 1] # "(" THEN 0
             ELSE LET k == IndexOf(s, ")", j + 2)
                  IN  IF k = 0 \/ k < j + 3 THEN 0 ELSE k

RECURSIVE RemoveImageRefsFrom(_, _)
RemoveImageRefsFrom(s, i) ==
    IF i > Len(s) THEN <<>>
    ELSE LET j == NextIn(s, {"!"}, i)
             e == ImageRefEnd(s, i)
         IN  IF j > i THEN SubSeq(s, i, j - 1) \o RemoveImageRefsFrom(s, j)
             ELSE IF e > 0 THEN RemoveImageRefsFrom(s, e + 1)
             ELSE <<s[i]>> \o RemoveImageRefsFrom(s, i + 1)

RemoveImageRefs(s) == RemoveImageRefsFrom(s, 1)

-----------------------------------------------------------------------------
\* Step 2: result.replace(/<img[^>]*>/g, "")

ImgTagEnd(s, i) ==
    IF ~StartsWithAt(s, <<"<", "i", "m", "g">>, i) THEN 0
    ELSE IndexOf(s, ">", i + 4)

RECURSIVE RemoveImgTagsFrom(_, _)
RemoveImgTagsFrom(s, i) ==
    IF i > Len(s) THEN <<>>
    ELSE LET j == NextIn(s, {"<"}, i)
             e == ImgTagEnd(s, i)
         IN  IF j > i THEN SubSeq(s, i, j - 1) \o RemoveImgTagsFrom(s, j)
             ELSE IF e > 0 THEN RemoveImgTagsFrom(s, e + 1)
             ELSE <<s[i]>> \o RemoveImgTagsFrom(s, i + 1)

RemoveImgTags(s) == RemoveImgTagsFrom(s, 1)

-----------------------------------------------------------------------------
\* Step 3: result.replace(/^(#{1,6})\s+/gm, (match, hashes) => `${hashes} `)

MaxHeadingLevel == 6

\* ^ under the m flag: the start of the input or just after a line terminator.
AtLineStart(s, i) == i = 1 \/ s[i - 1] \in LineTerminators

\* Length of the run of characters of the set C that starts at index i.
RECURSIVE RunLength(_, _, _)
RunLength(s, C, i) ==
    IF i > Len(s) \/ s[i] \notin C THEN 0
    ELSE 1 + RunLength(s, C, i + 1)

\* Length of the run of characters of the set C that ends at index i.
RECURSIVE RunLengthBack(_, _, _)
RunLengthBack(s, C, i) ==
    IF i < 1 \/ s[i] \notin C THEN 0
    ELSE 1 + RunLengthBack(s, C, i - 1)

\* HeadingHashes with \s* in place of \s+: a hash run gets its space whatever
\* follows it.
HeadingHashesAnyFollower(s, i) ==
    IF ~AtLineStart(s, i) THEN 0
    ELSE LET h == RunLength(s, {"#"}, i)
         IN  IF h >= 1 /\ h <= MaxHeadingLevel THEN h ELSE 0

\* Number of hashes of a match of /^(#{1,6})\s+/ starting at i, or 0 when
\* there is no match: a run of more than six hashes cannot be followed by \s
\* after any admissible prefix of it.
HeadingHashes(s, i) ==
    IF s[i] # "#" \/ ~AtLineStart(s, i) THEN 0
    ELSE LET h == RunLength(s, {"#"}, i)
         IN  IF h >= 1 /\ h <= MaxHeadingLevel /\ i + h <= Len(s) /\ IsSpace(s[i + h])
             THEN h ELSE 0

RECURSIVE NormalizeHeadingsFrom(_, _)
NormalizeHeadingsFrom(s, i) ==
    IF i > Len(s) THEN <<>>
    ELSE LET j == NextIn(s, {"#"}, i)
             h == HeadingHashes(s, i)
         IN  IF j > i THEN SubSeq(s, i, j - 1) \o NormalizeHeadingsFrom(s, j)
             ELSE IF h > 0
             THEN LET w == RunLength(s, WhiteSpace, i + h)
                  IN  SubSeq(s, i, i + h - 1) \o <<SP>>
                          \o NormalizeHeadingsFrom(s, i + h + w)
             ELSE <<s[i]>> \o NormalizeHeadingsFrom(s, i + 1)

NormalizeHeadings(s) == NormalizeHeadingsFrom(s, 1)

-----------------------------------------------------------------------------
\* Step 4: result.replace(/\n{4,}/g, "\n\n\n")

MinExcessNewlines == 4

RECURSIVE CollapseBlankLinesFrom(_, _)
CollapseBlankLinesFrom(s, i) ==
    IF i > Len(s) THEN <<>>
    ELSE LET j == NextIn(s, {NL}, i)
             n == RunLength(s, {NL}, i)
         IN  IF j > i THEN SubSeq(s, i, j - 1) \o CollapseBlankLinesFrom(s, j)
             ELSE IF n >= MinExcessNewlines
             THEN <<NL, NL, NL>> \o CollapseBlankLinesFrom(s, i + n)
             ELSE SubSeq(s, i, i + n - 1) \o CollapseBlankLinesFrom(s, i + n)

CollapseBlankLines(s) == CollapseBlankLinesFrom(s, 1)

-----------------------------------------------------------------------------
\* Step 5: result.replace(/[ \t]+$/gm, "")

\* $ under the m flag: the end of the input or just before a line terminator.
AtLineEnd(s, i) == i > Len(s) \/ s[i] \in LineTerminators

RECURSIVE StripLineEndsFrom(_, _)
StripLineEndsFrom(s, i) ==
    IF i > Len(s) THEN <<>>
    ELSE LET j == NextIn(s, Blanks, i)
             n == RunLength(s, Blanks, i)
         IN  IF j > i THEN SubSeq(s, i, j - 1) \o StripLineEndsFrom(s, j)
             ELSE IF AtLineEnd(s, i + n)
             THEN StripLineEndsFrom(s, i + n)
             ELSE SubSeq(s, i, i + n - 1) \o StripLineEndsFrom(s, i + n)

\* StripLineEnds without the m flag: only the end of the input is stripped.
StripInputEnd(s) == Slice(s, 1, Len(s) - RunLengthBack(s, Blanks, Len(s)))

StripLineEnds(s) == StripLineEndsFrom(s, 1)

-----------------------------------------------------------------------------
\* Steps 6 and 7: result.trimStart(); result.trimEnd() + "\n"

TrimStart(s) ==
    LET n == RunLength(s, WhiteSpace, 1)
    IN  Slice(s, n + 1, Len(s))

TrimEnd(s) == Slice(s, 1, Len(s) - RunLengthBack(s, WhiteSpace, Len(s)))

\* EndWithNewline without the trimEnd.
AppendNewline(s) == s \o <<NL>>

EndWithNewline(s) == TrimEnd(s) \o <<NL>>

-----------------------------------------------------------------------------
(* optimizeForLLMs: the seven steps in the order of the source             *)

optimizeForLLMs(s) ==
    EndWithNewline(
      TrimStart(
        StripLineEnds(
          CollapseBlankLines(
            NormalizeHeadings(
              RemoveImgTags(
                RemoveImageRefs(s)))))))

-----------------------------------------------------------------------------
(* processWithMistral: the text and page count of a resolved OCR response  *)

Digits == <<"0", "1", "2", "3", "4", "5", "6", "7", "8", "9">>

\* Number-to-string conversion of the template literal ${index + 1}.
RECURSIVE Decimal(_)
Decimal(n) ==
    IF n < 10 THEN <<Digits[n + 1]>>
    ELSE Decimal(n \div 10) \o <<Digits[(n % 10) + 1]>>

\* "\n\n---\n\n## Page "
PageHeaderPrefix ==
    <<NL, NL, "-", "-", "-", NL, NL, "#", "#", SP, "P", "a", "g", "e", SP>>

\* PageHeader with the first page left without a header.
PageHeaderAfterFirst(n, i) ==
    IF n > 1 /\ i > 1 THEN PageHeaderPrefix \o Decimal(i) \o <<NL, NL>> ELSE <<>>

\* pages.length > 1 ? `\n\n---\n\n## Page ${index + 1}\n\n` : "", where
\* index = i - 1 is the zero-based index of the page.
PageHeader(n, i) ==
    IF n > 1 THEN PageHeaderPrefix \o Decimal(i) \o <<NL, NL>> ELSE <<>>

\* x || "" for an optional string x.
OrEmpty(x) == IF x = None THEN <<>> ELSE x[1]

\* x || [] for an optional list x.
OrNoPages(x) == IF x = None THEN <<>> ELSE x[1]

processWithMistral(ocrResponse) ==
    LET pages == OrNoPages(ocrResponse.pages)
        markdownContent ==
            Flatten([i \in 1..Len(pages) |->
                        PageHeader(Len(pages), i) \o OrEmpty(pages[i].markdown)])
    IN  [text |-> markdownContent, pageCount |-> Len(pages)]

-----------------------------------------------------------------------------
(* processWithOpenAI: the text and estimated page count of a response      *)

CharsPerPage == 3000

Max(a, b) == IF a >= b THEN a ELSE b

\* EstimatePages with Math.round in place of Math.ceil.
EstimatePagesRounded(length) ==
    IF 1 >= (2 * length + 3000) \div (2 * 3000) THEN 1
    ELSE (2 * length + 3000) \div (2 * 3000)

\* Math.ceil(a / b) for a >= 0, b > 0.
CeilDiv(a, b) == (a + b - 1) \div b

\* The output_text parts of one message's content, concatenated.
RECURSIVE OutputTextOf(_)
OutputTextOf(content) ==
    IF content = <<>> THEN <<>>
    ELSE (IF Head(content).type = "output_text" THEN Head(content).text ELSE <<>>)
             \o OutputTextOf(Tail(content))

RECURSIVE ExtractText(_)
ExtractText(output) ==
    IF output = <<>> THEN <<>>
    ELSE (IF Head(output).type = "message"
          THEN OutputTextOf(Head(output).content) ELSE <<>>)
             \o ExtractText(Tail(output))

EstimatePages(length) == Max(1, CeilDiv(length, CharsPerPage))

processWithOpenAI(apiResponse) ==
    LET extractedText == ExtractText(apiResponse.output[1])
    IN  [text |-> extractedText, pageCount |-> EstimatePages(Len(extractedText))]

-----------------------------------------------------------------------------
(* POST: validation, dispatch, normalization, response                     *)

PdfType == <<"application/pdf">>

\* formData.get(name): the first value of the field, or null.
FormGet(fields) == IF fields = <<>> THEN None ELSE Some(Head(fields))

\* (formData.get("provider") as string) || "mistral"
ProviderOf(form) ==
    IF form.provider = None \/ form.provider[1] = "" THEN "mistral"
    ELSE form.provider[1]

\* ValidationError without the content-type check.
ValidationErrorFileOnly(form) ==
    IF form.file = <<>> THEN "No file provided" ELSE ""

\* ValidationError with the content-type check first, written file?.type:
\* a missing file has no type and fails it.
ValidationErrorTypeFirst(form) ==
    IF form.file = <<>> \/ form.file[1].type # PdfType
    THEN "Only PDF files are supported"
    ELSE ""

\* The two checks of the handler before the file is read: the message of the
\* 400 response, or "" when the request passes.
ValidationError(form) ==
    LET file == FormGet(form.file)
    IN  IF file = None THEN "No file provided"
        ELSE IF file[1].type # PdfType THEN "Only PDF files are supported"
        ELSE ""

\* if (provider === "openai") ... else ...
BackendFor(provider) == IF provider = "openai" THEN "openai" ELSE "mistral"

JsonError(status, message) ==
    [status |-> status, body |-> [error |-> message]]

\* error instanceof Error ? error.message : "OCR processing failed"
CaughtResponse(error) ==
    JsonError(500, IF error.isError THEN error.message ELSE "OCR processing failed")

Success(form, res) ==
    [status |-> 200,
     body |-> [text |-> optimizeForLLMs(res.text),
               pageCount |-> res.pageCount,
               filename |-> FormGet(form.file)[1].name,
               provider |-> ProviderOf(form)]]

NoResponse == [status |-> 0, body |-> <<>>]
NoResult   == [text |-> <<>>, pageCount |-> 0]
NoReply    == [settled |-> "pending"]

\* Thrown by the for...of loop of processWithOpenAI over a missing output.
NotIterable == [isError |-> TRUE, message |-> "response.output is not iterable"]

(* The requests *)

MaxFiles == 2
MaxPages == 3
MaxItems == 2

\* 50 * 1024 * 1024, the size the page accepts at most (page.tsx, line 32).
MaxFileSize == 50 * 1024 * 1024

\* Uploaded files: a PDF, a PDF larger than the page accepts, an image, and
\* a file of undeclared type.
Files == {[type |-> PdfType, name |-> "scan.pdf", size |-> 1024],
          [type |-> PdfType, name |-> "second.pdf", size |-> MaxFileSize + 1],
          [type |-> <<"image/png">>, name |-> "photo.png", size |-> 2048],
          [type |-> <<>>, name |-> "notes", size |-> 0]}

ProviderValues == {"", "mistral", "openai", "azure"}

\* The form data: the `file` fields in order, and the `provider` field if any.
Forms == [file : SeqsUpTo(Files, MaxFiles),
          provider : {None} \cup {Some(v) : v \in ProviderValues}]

\* request.formData() rejects on a body that is not form data.
BadBody == [isError |-> TRUE, message |-> "Failed to parse body as FormData."]

NoForm == [file |-> <<>>, provider |-> None]

Requests == [parsed : {TRUE}, form : Forms] \cup {[parsed |-> FALSE, form |-> NoForm]}

(* What the providers may settle with *)

Pages == [markdown : {None, Some(<<"A">>), Some(<<"B">>), Some(<<"C">>)}]

MistralResponses == [pages : {None} \cup {Some(ps) : ps \in SeqsUpTo(Pages, MaxPages)}]

Contents == {[type |-> "output_text", text |-> <<"A", NL>>],
             [type |-> "refusal", text |-> <<"R">>]}

Items == {[type |-> "message", content |-> <<>>],
          [type |-> "reasoning", content |-> <<>>]}
            \cup [type : {"message"}, content : [1..2 -> Contents]]

OpenAIResponses == [output : {None} \cup {Some(o) : o \in SeqsUpTo(Items, MaxItems)}]

\* Network failure, authentication failure, a thrown non-Error value.
Failures == {[isError |-> TRUE, message |-> "fetch failed"],
             [isError |-> TRUE, message |-> "401 Unauthorized"],
             [isError |-> FALSE, message |-> ""]}

NormIdle ==
    /\ markdown = <<>>
    /\ runs = 0
    /\ once = <<>>
    /\ twice = <<>>

\* No estimate asked for.
NoEstimate == [length |-> 0, pageCount |-> 0, done |-> FALSE]

\* The page as useState initializes it (page.tsx, lines 14-22), no file chosen.
NoFile == [type |-> <<>>, name |-> "", size |-> 0]

NoUpload ==
    [file |-> NoFile,
     calls |-> 0,
     provider |-> "mistral",
     status |-> "idle",
     error |-> "",
     sent |-> 0,
     result |-> <<>>,
     filename |-> "",
     pageCount |-> 0,
     usedProvider |-> "mistral"]

RestIdle ==
    /\ est = NoEstimate
    /\ client = NoUpload

Init ==
    /\ request \in Requests
    /\ pc = "received"
    /\ called = <<>>
    /\ reply = NoReply
    /\ result = NoResult
    /\ response = NoResponse
    /\ NormIdle
    /\ RestIdle

\* await request.formData() rejects: the catch block answers.
RejectBody ==
    /\ pc = "received"
    /\ ~request.parsed
    /\ response' = CaughtResponse(BadBody)
    /\ pc' = "done"
    /\ UNCHANGED <<request, called, reply, result, normVars, restVars>>

\* Lines 110-123: a request that fails a check is answered 400.
Refuse ==
    /\ pc = "received"
    /\ request.parsed
    /\ ValidationError(request.form) # ""
    /\ response' = JsonError(400, ValidationError(request.form))
    /\ pc' = "done"
    /\ UNCHANGED <<request, called, reply, result, normVars, restVars>>

\* Lines 125-135: the file is read and one adapter is entered; the handler
\* is suspended on the provider call.
Dispatch ==
    /\ pc = "received"
    /\ request.parsed
    /\ ValidationError(request.form) = ""
    /\ called' = Append(called, BackendFor(ProviderOf(request.form)))
    /\ pc' = "awaiting"
    /\ UNCHANGED <<request, reply, result, response, normVars, restVars>>

\* The Mistral call resolves: processWithMistral returns, the text is
\* normalized and the 200 response is built.
MistralResolves ==
    /\ pc = "awaiting"
    /\ called[Len(called)] = "mistral"
    /\ \E r \in MistralResponses :
          /\ reply' = [settled |-> "resolved", value |-> r]
          /\ result' = processWithMistral(r)
          /\ response' = Success(request.form, result')
    /\ pc' = "done"
    /\ UNCHANGED <<request, called, normVars, restVars>>

\* The OpenAI call resolves: a response without an output list makes the
\* for...of loop throw, anything else is extracted, normalized and returned.
OpenAIResolves ==
    /\ pc = "awaiting"
    /\ called[Len(called)] = "openai"
    /\ \E r \in OpenAIResponses :
          /\ reply' = [settled |-> "resolved", value |-> r]
          /\ IF r.output = None
             THEN /\ response' = CaughtResponse(NotIterable)
                  /\ UNCHANGED result
             ELSE /\ result' = processWithOpenAI(r)
                  /\ response' = Success(request.form, result')
    /\ pc' = "done"
    /\ UNCHANGED <<request, called, normVars, restVars>>

\* ProviderRejects with a retry: a rejected call is made again, up to three
\* calls, before the catch block answers.
ProviderRejectsRetrying ==
    /\ pc = "awaiting"
    /\ \E e \in Failures :
          /\ reply' = [settled |-> "rejected", error |-> e]
          /\ IF Len(called) < 3
             THEN /\ called' = Append(called, called[Len(called)])
                  /\ UNCHANGED <<pc, response>>
             ELSE /\ response' = CaughtResponse(e)
                  /\ pc' = "done"
                  /\ UNCHANGED called
    /\ UNCHANGED <<request, result, normVars, restVars>>

\* The provider call rejects: the catch block answers 500.
ProviderRejects ==
    /\ pc = "awaiting"
    /\ \E e \in Failures :
          /\ reply' = [settled |-> "rejected", error |-> e]
          /\ response' = CaughtResponse(e)
    /\ pc' = "done"
    /\ UNCHANGED <<request, called, result, normVars, restVars>>

Next ==
    \/ RejectBody
    \/ Refuse
    \/ Dispatch
    \/ MistralResolves
    \/ OpenAIResolves
    \/ ProviderRejects

Spec == Init /\ [][Next]_vars

-----------------------------------------------------------------------------
(* The normalizer run on its own: every input of Inputs, normalized once   *)
(* and then once more on its own output.                                   *)

MaxLen   == 7
MaxFrags == 4

\* Line structure: blank runs, headings, ordinary text.
LineAlphabet == {NL, SP, TAB, "#", "x"}

\* Pieces of image markup; an input of the second family is a concatenation
\* of at most MaxFrags of them.
ImageFragments ==
    { <<"!", "[", "a", "]">>, <<"(", "u", ")">>, <<"(", ")">>,
      <<"<", "i", "m", "g">>, <<">">>, <<"<", "i">>, <<"m", "g", ">">>,
      <<"x">> }

\* "#Heading\n\n\n\n\nText  \n"
HeadingSample ==
    <<"#", "H", "e", "a", "d", "i", "n", "g", NL, NL, NL, NL, NL,
      "T", "e", "x", "t", SP, SP, NL>>

\* "# Heading\n\n\n\n\nText  \n"
SpacedHeadingSample == <<"#", SP>> \o Tail(HeadingSample)

\* "x\n\n \n\nx": a blank-line run holding a line made of one space.
BlankRunSample == <<"x", NL, NL, SP, NL, NL, "x">>

Samples == {HeadingSample, SpacedHeadingSample, BlankRunSample}

Inputs ==
    SeqsUpTo(LineAlphabet, MaxLen)
        \cup {Flatten(f) : f \in SeqsUpTo(ImageFragments, MaxFrags)}
        \cup Samples

InitNorm ==
    /\ markdown \in Inputs
    /\ runs = 0
    /\ once = <<>>
    /\ twice = <<>>
    /\ request = [parsed |-> FALSE, form |-> NoForm]
    /\ pc = "idle"
    /\ called = <<>>
    /\ reply = NoReply
    /\ result = NoResult
    /\ response = NoResponse
    /\ RestIdle

Normalize ==
    /\ runs = 0
    /\ once' = optimizeForLLMs(markdown)
    /\ runs' = 1
    /\ UNCHANGED <<markdown, twice, postVars, restVars>>

NormalizeAgain ==
    /\ runs = 1
    /\ twice' = optimizeForLLMs(once)
    /\ runs' = 2
    /\ UNCHANGED <<markdown, once, postVars, restVars>>

NextNorm == Normalize \/ NormalizeAgain

SpecNorm == InitNorm /\ [][NextNorm]_vars

-----------------------------------------------------------------------------
(* processWithOpenAI run on its own on texts of every length up to         *)
(* MaxTextLength: only the length and the page count are kept.             *)

MaxTextLength == 9000

\* A text of n characters.
TextOfLength(n) == [i \in 1..n |-> "x"]

\* A response whose output holds a message with two output_text parts, of
\* n characters together, between items that carry no text.
ResponseOfLength(n) ==
    [output |->
        Some(<< [type |-> "reasoning", content |-> <<>>],
                [type |-> "message",
                 content |-> << [type |-> "output_text", text |-> TextOfLength(n \div 2)],
                                [type |-> "refusal", text |-> <<"R">>],
                                [type |-> "output_text",
                                 text |-> TextOfLength(n - (n \div 2))] >>] >>)]

PostIdle ==
    /\ request = [parsed |-> FALSE, form |-> NoForm]
    /\ pc = "idle"
    /\ called = <<>>
    /\ reply = NoReply
    /\ result = NoResult
    /\ response = NoResponse

InitPages ==
    /\ est \in [length : 0..MaxTextLength, pageCount : {0}, done : {FALSE}]
    /\ client = NoUpload
    /\ NormIdle
    /\ PostIdle

\* Lines 90-105 of processWithOpenAI on a response of est.length characters.
Estimate ==
    /\ ~est.done
    /\ LET r == processWithOpenAI(ResponseOfLength(est.length))
       IN  est' = [length |-> Len(r.text), pageCount |-> r.pageCount, done |-> TRUE]
    /\ UNCHANGED <<normVars, postVars, client>>

NextPages == Estimate

SpecPages == InitPages /\ [][NextPages]_vars

-----------------------------------------------------------------------------
(* The page (page.tsx) in front of the handler: processFile posts the file *)
(* it accepts to /api/ocr and settles on the handler's response.  Another  *)
(* HTTP client may post a request of its own to the handler instead.       *)

MaxUploads == 2

\* The files a user may drop: those of Files and a PDF of exactly 50MB.
ClientFiles ==
    Files \cup {[type |-> PdfType, name |-> "limit.pdf", size |-> MaxFileSize]}

\* processFile with the check of lines 32-36 left out.
FileErrorTypeOnly(file) ==
    IF file.type # PdfType THEN "Please upload a PDF file" ELSE ""

\* Lines 26-36 of processFile: the message of the check the file fails, ""
\* when it passes both.
FileError(file) ==
    IF file.type # PdfType THEN "Please upload a PDF file"
    ELSE IF file.size > MaxFileSize THEN "File size must be under 50MB"
    ELSE ""

\* a || b on strings.
OrElse(a, b) == IF a = "" THEN b ELSE a

\* response.ok
Ok(res) == res.status >= 200 /\ res.status <= 299

InitClient ==
    /\ client = NoUpload
    /\ est = NoEstimate
    /\ NormIdle
    /\ PostIdle

\* Lines 145 and 160: a provider button, enabled outside a run and hidden
\* when a result is shown.
SetProvider ==
    /\ client.status \in {"idle", "error"}
    /\ \E id \in {"mistral", "openai"} :
          /\ id # client.provider
          /\ client' = [client EXCEPT !.provider = id]
    /\ UNCHANGED <<postVars, normVars, est>>

\* Lines 25-51: processFile up to its await.  The drop zone takes a file
\* when no run is under way and no result is shown.
ProcessFile ==
    /\ client.status \in {"idle", "error"}
    /\ client.calls < MaxUploads
    /\ pc \in {"idle", "done"}
    /\ \E file \in ClientFiles :
          IF FileError(file) # ""
          THEN /\ client' = [client EXCEPT !.file = file,
                                           !.calls = @ + 1,
                                           !.error = FileError(file),
                                           !.status = "error"]
               /\ UNCHANGED postVars
          ELSE /\ client' = [client EXCEPT !.file = file,
                                           !.calls = @ + 1,
                                           !.error = "",
                                           !.result = <<>>,
                                           !.sent = @ + 1,
                                           !.status = "processing"]
               /\ request' = [parsed |-> TRUE,
                              form |-> [file |-> <<file>>,
                                        provider |-> Some(client.provider)]]
               /\ pc' = "received"
               /\ called' = <<>>
               /\ reply' = NoReply
               /\ result' = NoResult
               /\ response' = NoResponse
    /\ UNCHANGED <<normVars, est>>

\* Lines 53-67: the response arrives.
ClientSettles ==
    /\ client.status = "processing"
    /\ pc = "done"
    /\ IF Ok(response)
       THEN client' = [client EXCEPT !.result = response.body.text,
                                     !.filename = response.body.filename,
                                     !.pageCount = response.body.pageCount,
                                     !.usedProvider =
                                         OrElse(response.body.provider, client.provider),
                                     !.status = "done"]
       ELSE client' = [client EXCEPT !.error =
                                         OrElse(response.body.error, "Failed to process PDF"),
                                     !.status = "error"]
    /\ UNCHANGED <<postVars, normVars, est>>

\* Lines 64-67: fetch rejects, the response never arrives.
FetchFails ==
    /\ client.status = "processing"
    /\ pc # "done"
    /\ client' = [client EXCEPT !.error = "Failed to fetch", !.status = "error"]
    /\ UNCHANGED <<postVars, normVars, est>>

\* Lines 116-123.
HandleReset ==
    /\ client.status \in {"error", "done"}
    /\ client' = [client EXCEPT !.status = "idle",
                                !.result = <<>>,
                                !.error = "",
                                !.filename = "",
                                !.pageCount = 0,
                                !.file = NoFile]
    /\ UNCHANGED <<postVars, normVars, est>>

\* A request posted to /api/ocr by another HTTP client than the page.
DirectPost ==
    /\ client = NoUpload
    /\ pc = "idle"
    /\ request' \in Requests
    /\ pc' = "received"
    /\ UNCHANGED <<called, reply, result, response, normVars, restVars>>

NextClient ==
    \/ SetProvider
    \/ ProcessFile
    \/ ClientSettles
    \/ FetchFails
    \/ HandleReset
    \/ DirectPost
    \/ RejectBody
    \/ Refuse
    \/ Dispatch
    \/ MistralResolves
    \/ OpenAIResolves
    \/ ProviderRejects

SpecClient == InitClient /\ [][NextClient]_vars

-----------------------------------------------------------------------------
(* Properties of optimizeForLLMs, checked under SpecNorm                   *)

\* s holds n consecutive newline characters somewhere.
HasNewlineRun(s, n) ==
    \E i \in 1..(Len(s) - n + 1) : \A k \in 0..(n - 1) : s[i + k] = NL

\* s holds a substring of the form ![alt](url): "![", an alt text without
\* "]", "](", a non-empty url without ")", and ")".
ContainsImageRef(s) ==
    \E i, j, k \in 1..Len(s) :
        /\ i + 2 <= j
        /\ j + 3 <= k
        /\ s[i] = "!" /\ s[i + 1] = "["
        /\ s[j] = "]" /\ s[j + 1] = "("
        /\ s[k] = ")"
        /\ \A m \in (i + 2)..(j - 1) : s[m] # "]"
        /\ \A m \in (j + 2)..(k - 1) : s[m] # ")"

AllWhiteSpace(s) == \A i \in 1..Len(s) : s[i] \in WhiteSpace

\* A space or tab of s is immediately followed by a newline or by the end.
HasTrailingBlank(s) ==
    \E i \in 1..Len(s) :
        /\ s[i] \in {SP, TAB}
        /\ (i = Len(s) \/ s[i + 1] = NL)

\* The text step 3 of the normalizer hands to step 4.
AfterStep3(s) == NormalizeHeadings(RemoveImgTags(RemoveImageRefs(s)))

\* C1: optimizeForLLMs is idempotent: normalizing the output of the
\* normalizer once more returns that output unchanged.
C1_Idempotent == runs = 2 => twice = once

\* C2: the output of optimizeForLLMs holds no run of 4 or more consecutive
\* newlines, also when the blank-line runs of the input hold lines made only
\* of spaces or tabs.
C2_NoExcessBlankLines == runs >= 1 => ~HasNewlineRun(once, MinExcessNewlines)

\* C3: the output of optimizeForLLMs holds no markdown image reference
\* ![alt](url), also when removing one piece of markup joins the characters
\* around it into a new reference.
C3_NoImageRefs == runs >= 1 => ~ContainsImageRef(once)

\* "# Heading\n\n\nText\n"
SpecExampleOutput ==
    <<"#", SP, "H", "e", "a", "d", "i", "n", "g", NL, NL, NL, "T", "e", "x", "t", NL>>

\* "#Heading\n\n\nText\n"
HeadingSampleOutput ==
    <<"#", "H", "e", "a", "d", "i", "n", "g", NL, NL, NL, "T", "e", "x", "t", NL>>

\* C4 as stated: optimizeForLLMs("#Heading\n\n\n\n\nText  \n") returns
\* "# Heading\n\n\nText\n".
C4_SpecExample ==
    (runs >= 1 /\ markdown = HeadingSample) => once = SpecExampleOutput

\* C4 as amended: optimizeForLLMs("#Heading\n\n\n\n\nText  \n") returns
\* "#Heading\n\n\nText\n": the five newlines become three and the trailing
\* spaces go, but no space is put after a hash that no whitespace follows.
C4_HeadingSample ==
    (runs >= 1 /\ markdown = HeadingSample) => once = HeadingSampleOutput

C4_Witness == runs >= 1 /\ markdown = HeadingSample

\* C5: the output of optimizeForLLMs ends in exactly one newline: its last
\* character is a newline and the one before it, if any, is not whitespace;
\* the empty input and every whitespace-only input give exactly "\n".
C5_SingleTrailingNewline ==
    runs >= 1 =>
        /\ Len(once) >= 1
        /\ once[Len(once)] = NL
        /\ Len(once) >= 2 => once[Len(once) - 1] \notin WhiteSpace
        /\ AllWhiteSpace(markdown) => once = <<NL>>

\* A whitespace-only input of several characters has been normalized.
C5_Witness ==
    /\ runs >= 1
    /\ Len(markdown) >= 3
    /\ AllWhiteSpace(markdown)
    /\ once = <<NL>>

\* C6: no line of the output of optimizeForLLMs ends with a space or a tab:
\* no space or tab is immediately followed by a newline or by the end of the
\* output, also when step 3 rewrote a heading line to end in a single space.
C6_NoTrailingBlanks == runs >= 1 => ~HasTrailingBlank(once)

\* Step 3 rewrote the last heading line to "#" and a single space, which
\* steps 5 to 7 then had to remove.
C6_Witness ==
    /\ runs >= 1
    /\ HasTrailingBlank(AfterStep3(markdown))
    /\ AfterStep3(markdown) # markdown
    /\ once = <<"x", NL, "#", NL>>

-----------------------------------------------------------------------------
(* Properties of the POST handler and its adapters, checked under Spec     *)

\* "## Page "
PageHeading == <<"#", "#", SP, "P", "a", "g", "e", SP>>

\* "---\n\n"
Separator == <<"-", "-", "-", NL, NL>>

\* Where the '## Page ' headings of text start.
HeadingPositions(text) ==
    {i \in 1..Len(text) : StartsWithAt(text, PageHeading, i)}

\* The k-th element of a set of positions, in increasing order.
KthPosition(S, k) == CHOOSE p \in S : Cardinality({q \in S : q < p}) = k - 1

\* The page markdown of the model is made of the letters A, B, C alone.
Letters(text) == SelectSeq(text, LAMBDA c : c \in {"A", "B", "C"})

MistralDone ==
    /\ pc = "done"
    /\ called = <<"mistral">>
    /\ reply.settled = "resolved"

RepliedPages ==
    IF reply.value.pages = None THEN <<>> ELSE reply.value.pages[1]

MarkdownOf(page) == IF page.markdown = None THEN <<>> ELSE page.markdown[1]

MarkdownsInOrder(pages) == Flatten([i \in 1..Len(pages) |-> MarkdownOf(pages[i])])

C8_ProviderIsBackend ==
    response.status = 200 =>
        /\ Len(called) = 1
        /\ response.body.provider = called[1]

\* The provider call of the request failed: it rejected, or it resolved with
\* a malformed response (a Mistral reply without a pages list, an OpenAI
\* reply without an output list).
ProviderFailed ==
    /\ pc = "done"
    /\ called # <<>>
    /\ \/ reply.settled = "rejected"
       \/ /\ reply.settled = "resolved"
          /\ IF called[1] = "mistral"
             THEN reply.value.pages = None
             ELSE reply.value.output = None

\* C9: a failed provider call is answered 500 with a body {error: message},
\* never 200; every response is a 200 with the normalized text or an error
\* body without a text field.
C9_FailurePropagates ==
    /\ ProviderFailed =>
          /\ response.status = 500
          /\ DOMAIN response.body = {"error"}
          /\ reply.settled = "rejected" =>
                response.body.error =
                    IF reply.error.isError THEN reply.error.message
                    ELSE "OCR processing failed"
    /\ pc = "done" =>
          \/ /\ response.status = 200
             /\ "text" \in DOMAIN response.body
             /\ response.body.text = optimizeForLLMs(result.text)
          \/ /\ response.status \in {400, 500}
             /\ DOMAIN response.body = {"error"}

\* The file the form data's `file` field gives the handler is not declared
\* as a PDF.
NonPdfUpload ==
    /\ request.parsed
    /\ request.form.file # <<>>
    /\ request.form.file[1].type # PdfType

\* C10: a request whose `file` field has a declared content type other than
\* 'application/pdf' is answered 400 {error: 'Only PDF files are supported'},
\* whatever the provider field is, and no provider is called for it.
C10_NonPdfRefused ==
    NonPdfUpload =>
        /\ called = <<>>
        /\ pc = "done" =>
              response = [status |-> 400,
                          body |-> [error |-> "Only PDF files are supported"]]

\* An image uploaded with provider=openai has been answered.
C10_Witness ==
    /\ NonPdfUpload
    /\ pc = "done"
    /\ request.form.file[1].type = <<"image/png">>
    /\ request.form.provider = Some("openai")
    /\ response.status = 400

\* The form data of the request has no `file` field.
NoFileField ==
    /\ request.parsed
    /\ request.form.file = <<>>

\* C11: a request whose form data has no `file` field is answered 400
\* {error: 'No file provided'}, whatever the provider field is: the
\* missing-file check comes before the content-type check, and no provider is
\* called for it.
C11_MissingFileRefused ==
    NoFileField =>
        /\ called = <<>>
        /\ pc = "done" =>
              response = [status |-> 400, body |-> [error |-> "No file provided"]]

\* A request without a file and with provider=openai has been answered.
C11_Witness ==
    /\ NoFileField
    /\ pc = "done"
    /\ request.form.provider = Some("openai")
    /\ response.status = 400

\* C12: the handler makes at most one provider call, to one of the two
\* backends; a 200 response follows exactly one call that resolved, and the
\* normalized text exists only once that call has settled; a rejected call
\* ends the request with a 500 and is not made again; a 400 response follows
\* no call.
C12_OneProviderCall ==
    /\ Len(called) <= 1
    /\ \A i \in 1..Len(called) : called[i] \in {"mistral", "openai"}
    /\ response.status = 200 =>
          /\ Len(called) = 1
          /\ reply.settled = "resolved"
          /\ pc = "done"
    /\ pc = "awaiting" =>
          /\ Len(called) = 1
          /\ reply = NoReply
          /\ result = NoResult
          /\ response = NoResponse
    /\ reply.settled = "rejected" =>
          /\ Len(called) = 1
          /\ pc = "done"
          /\ response.status = 500
    /\ response.status = 400 => called = <<>>

\* A request has been answered 200 after its one call, to OpenAI, resolved.
C12_Witness ==
    /\ pc = "done"
    /\ response.status = 200
    /\ called = <<"openai">>
    /\ reply.settled = "resolved"

\* The form of the answered request carries two or more file fields.
SeveralFileFields ==
    /\ request.parsed
    /\ Len(request.form.file) >= 2

\* C14: the handler validates that exactly one file field is present: a
\* request whose form carries two or more file fields is rejected with a
\* 400 response and no provider call, rather than processed using one of
\* them.
C14_ExactlyOneFile ==
    SeveralFileFields =>
        /\ called = <<>>
        /\ pc = "done" => response.status = 400

-----------------------------------------------------------------------------
(* Further properties of optimizeForLLMs, checked under SpecNorm           *)

\* The text that reaches step 3.
BeforeStep3(s) == RemoveImgTags(RemoveImageRefs(s))

\* s without its spaces and tabs.
WithoutBlanks(s) == SelectSeq(s, LAMBDA c : c \notin Blanks)

\* A line of s begins with 1 to 6 hashes followed by white space.
HasHeadingLine(s) ==
    \E i \in 1..Len(s), n \in 1..6 :
        /\ i = 1 \/ s[i - 1] \in LineTerminators
        /\ i + n <= Len(s)
        /\ \A k \in 0..(n - 1) : s[i + k] = "#"
        /\ s[i + n] \in WhiteSpace

\* C15: step 3 removes nothing but spaces and tabs (every other character,
\* newlines included, is kept in place and in order, so no line is joined
\* with the next), and returns a text without heading lines unchanged.
C15_HeadingsKeepLines ==
    runs >= 1 =>
        /\ WithoutBlanks(AfterStep3(markdown)) = WithoutBlanks(BeforeStep3(markdown))
        /\ ~HasHeadingLine(BeforeStep3(markdown)) =>
               AfterStep3(markdown) = BeforeStep3(markdown)

\* s holds a substring that starts with "<img" and ends at a following ">".
ContainsImgTag(s) ==
    \E i, j \in 1..Len(s) :
        /\ i + 4 <= j
        /\ s[i] = "<" /\ s[i + 1] = "i" /\ s[i + 2] = "m" /\ s[i + 3] = "g"
        /\ s[j] = ">"

\* C16: the output of optimizeForLLMs holds no raw image tag, also when the
\* removal of one tag joins the characters around it into a new tag.
C16_NoImgTags == runs >= 1 => ~ContainsImgTag(once)

-----------------------------------------------------------------------------
(* Property of processWithOpenAI, checked under SpecPages                  *)

\* C13: the page count processWithOpenAI reports for an extracted text of L
\* characters is max(1, ceil(L / 3000)): the least p >= 1 with L <= 3000 * p.
\* It is 1 for every L in 0..3000, 3 for L = 9000, and never 0.
C13_EstimatedPages ==
    est.done =>
        /\ est.pageCount >= 1
        /\ est.length <= 3000 * est.pageCount
        /\ est.pageCount > 1 => est.length > 3000 * (est.pageCount - 1)
        /\ est.length <= 3000 => est.pageCount = 1
        /\ est.length = 9000 => est.pageCount = 3

\* The page count of a text of 9000 characters has been estimated.
C13_Witness ==
    /\ est.done
    /\ est.length = 9000
    /\ est.pageCount = 3

-----------------------------------------------------------------------------
(* Property of processFile and POST together, checked under SpecClient     *)

\* The file is a PDF of at most 50MB.
WithinLimit(file) ==
    /\ file.type = <<"application/pdf">>
    /\ file.size <= 50 * 1024 * 1024

\* The handler has passed its checks on a request whose file is a PDF.
PdfAccepted ==
    /\ request.parsed
    /\ request.form.file # <<>>
    /\ request.form.file[1].type = <<"application/pdf">>
    /\ pc \in {"awaiting", "done"}

\* While a run is under way or has succeeded, the file is a PDF within the
\* limit; a file that is not has left the page in error; a successful run
\* shows the OK response to the request of its file; the handler calls a
\* provider for a PDF whatever its size.
LimitState ==
    /\ client.status \in {"uploading", "processing", "done"} =>
          /\ WithinLimit(client.file)
          /\ client.sent >= 1
          /\ request = [parsed |-> TRUE,
                        form |-> [file |-> <<client.file>>,
                                  provider |-> Some(client.provider)]]
    /\ (client.file # NoFile /\ ~WithinLimit(client.file)) =>
          /\ client.status = "error"
          /\ client.error \in {"Please upload a PDF file", "File size must be under 50MB"}
    /\ client.status = "done" =>
          /\ pc = "done"
          /\ response.status = 200
          /\ client.result = response.body.text
    /\ PdfAccepted =>
          /\ Len(called) = 1
          /\ response.status # 400

\* A call of processFile sends a request exactly when its file is a PDF
\* within the limit; a request sent by the page carries that file alone.
LimitStep ==
    /\ client'.sent \in {client.sent, client.sent + 1}
    /\ client'.sent = client.sent + 1 =>
          /\ client'.calls = client.calls + 1
          /\ WithinLimit(client'.file)
          /\ request'.form.file = <<client'.file>>
          /\ pc' = "received"
    /\ client'.calls = client.calls + 1 =>
          /\ WithinLimit(client'.file) => client'.sent = client.sent + 1
          /\ ~WithinLimit(client'.file) =>
                /\ client'.sent = client.sent
                /\ client'.status = "error"
                /\ UNCHANGED postVars

====
